---- MODULE Spec2Model ----
(***************************************************************************)
(* A model of skew_nvda.py: the module downloads daily NVDA bars, derives  *)
(* the log return and 30-bar rolling skewness columns, renders two charts  *)
(* into docs/ and prints the skewness of the log returns.                  *)
(*                                                                         *)
(* Numbers.  Closing prices are powers of two, so that the natural         *)
(* logarithm of a close is a whole multiple of ln 2; a log return is held  *)
(* as that whole multiple.  A skewness is scale invariant, and is held     *)
(* exactly, as the triple <<n, V, T>> of the number of observations and    *)
(* the integer numerators of the second and third central moments:         *)
(*       skew = sqrt(n(n-1)) / (n-2) * T / V^(3/2),                        *)
(*       V = n*Sum(x^2) - Sum(x)^2,                                        *)
(*       T = n^2*Sum(x^3) - 3n*Sum(x)*Sum(x^2) + 2*Sum(x)^3,               *)
(* with <<n, 0, 0>> the skewness 0.0 of n equal observations.              *)
(***************************************************************************)
EXTENDS Integers, Sequences, FiniteSets, TLC

\* ------------------------------------------------------------------ bounds
\* The provider returns between 0 and MaxBars daily bars.
MaxBars == 32
\* A client that imports the module makes at most MaxCalls calls.
MaxCalls == 3

\* ------------------------------------------------------- program constants
\* rolling(window=30)
WINDOW == 30

\* The close patterns of the price series: constant, alternating, and two
\* that repeat with a period that does not divide the window.
Patterns == {<<2>>, <<1, 2>>, <<1, 1, 2, 1>>, <<4, 1, 2, 2, 1, 1, 1>>}

\* ------------------------------------------------------------ table cells
\* A float cell of a DataFrame column: NaN, or a defined value.
NaN == [ok |-> FALSE]
Val(x) == [ok |-> TRUE, v |-> x]
IsNaN(c) == ~c.ok

\* Series.dropna(): the defined cells of a column, in order, as <<position, value>>.
RECURSIVE DropNa(_, _)
DropNa(col, i) ==
    IF i > Len(col) THEN <<>>
    ELSE IF IsNaN(col[i]) THEN DropNa(col, i + 1)
         ELSE <<(<<i, col[i].v>>)>> \o DropNa(col, i + 1)

\* The values of a dropna()'d series.
Values(s) == [k \in 1..Len(s) |-> s[k][2]]

\* ------------------------------------------------------------- the provider
\* The price series the provider holds for the period: n bars whose closes
\* repeat the pattern pat; bar i has the volume i.
Bars(n, pat) ==
    [i \in 1..n |-> [Close |-> pat[((i - 1) % Len(pat)) + 1], Volume |-> i]]

Markets == {Bars(n, pat) : n \in 0..MaxBars, pat \in Patterns}

\* ----------------------------------------------------------- compute_data
\* np.log of a close, in units of ln 2.
Log(c) == CHOOSE k \in 0..8 : 2^k = c

\* Mutant of Diff: the first position is filled with 0 (diff().fillna(0)).
Diff_FillFirst(xs) ==
    [t \in 1..Len(xs) |-> IF t = 1 THEN Val(0) ELSE Val(xs[t] - xs[t - 1])]

\* Series.diff(): NaN at the first position, x[t] - x[t-1] afterwards.
Diff(xs) ==
    [t \in 1..Len(xs) |-> IF t = 1 THEN NaN ELSE Val(xs[t] - xs[t - 1])]

LogReturn(rows) == Diff([t \in 1..Len(rows) |-> Log(rows[t].Close)])

\* The running sums of a rolling window: the number of defined observations
\* in it, and the sums of their first three powers.
EmptySums == [nobs |-> 0, x |-> 0, xx |-> 0, xxx |-> 0]

AddSkew(s, c) ==
    IF IsNaN(c) THEN s
    ELSE [nobs |-> s.nobs + 1, x |-> s.x + c.v, xx |-> s.xx + c.v * c.v,
          xxx |-> s.xxx + c.v * c.v * c.v]

\* Mutant of RemoveSkew: the observation that leaves the window stays in the
\* sums (an expanding window).
RemoveSkew_Keep(s, c) == s

RemoveSkew(s, c) ==
    IF IsNaN(c) THEN s
    ELSE [nobs |-> s.nobs - 1, x |-> s.x - c.v, xx |-> s.xx - c.v * c.v,
          xxx |-> s.xxx - c.v * c.v * c.v]

\* Mutant of CalcSkew: one observation fewer than minp is enough.
CalcSkew_OneShort(minp, s) ==
    IF s.nobs < minp - 1 \/ s.nobs < 3 THEN NaN
    ELSE Val(<<s.nobs,
               s.nobs * s.xx - s.x * s.x,
               s.nobs * s.nobs * s.xxx - 3 * s.nobs * s.x * s.xx
                   + 2 * s.x * s.x * s.x>>)

\* The skewness of the observations summed in s, NaN below minp or below 3
\* observations.  Equal observations give V = T = 0, the 0.0 that pandas 1.5
\* and later return for a uniform window; unequal ones, whole multiples of
\* ln 2 here, have a variance far above the 1e-14 under which the library
\* gives up and returns NaN.
CalcSkew(minp, s) ==
    IF s.nobs < minp \/ s.nobs < 3 THEN NaN
    ELSE Val(<<s.nobs,
               s.nobs * s.xx - s.x * s.x,
               s.nobs * s.nobs * s.xxx - 3 * s.nobs * s.x * s.xx
                   + 2 * s.x * s.x * s.x>>)

\* The pass over the column from position i on, prev being the sums of the
\* window that ends at position i - 1: the observation at position
\* i - window leaves the window, the one at position i enters it, and the
\* skewness of the sums is the output at position i.
RECURSIVE Roll(_, _, _, _)
Roll(col, window, i, prev) ==
    IF i > Len(col) THEN <<>>
    ELSE LET left == IF i - window >= 1 THEN RemoveSkew(prev, col[i - window])
                     ELSE prev
             sums == AddSkew(left, col[i])
         IN  <<CalcSkew(window, sums)>> \o Roll(col, window, i + 1, sums)

\* Series.rolling(window).skew(); min_periods defaults to the window.
RollingSkew(col, window) == Roll(col, window, 1, EmptySums)

\* The table compute_data returns for the downloaded rows.
WithColumns(rows) ==
    LET lr == LogReturn(rows)
        rs == RollingSkew(lr, WINDOW)
    IN  [t \in 1..Len(rows) |->
            [Close |-> rows[t].Close, Volume |-> rows[t].Volume,
             log_return |-> lr[t], rolling_skew |-> rs[t]]]

Column(data, name) == [t \in 1..Len(data) |-> data[t][name]]

\* The table of every price series of the provider.
Tables == [rows \in Markets |-> WithColumns(rows)]

\* ----------------------------------------------------------- compute_skew
\* The sum of the xs (p = 1), or of the p-th powers of n*x - s1 (p = 2, 3):
\* n^p times the p-th central sum when s1 is the sum of the xs.
RECURSIVE SumPow(_, _, _, _)
SumPow(xs, n, s1, p) ==
    IF xs = <<>> THEN 0
    ELSE LET d == n * Head(xs) - s1
         IN  (IF p = 1 THEN Head(xs) ELSE IF p = 2 THEN d * d ELSE d * d * d)
             + SumPow(Tail(xs), n, s1, p)

\* Series.skew() of defined values: NaN below 3 observations, else the
\* skewness from the deviations from the mean.
Skew(xs) ==
    LET n == Len(xs)
        s1 == SumPow(xs, n, 0, 1)
    IN  IF n < 3 THEN NaN
        ELSE Val(<<n, SumPow(xs, n, s1, 2) \div n, SumPow(xs, n, s1, 3) \div n>>)

\* data["log_return"].dropna().skew()
ScalarSkew(data) == Skew(Values(DropNa(Column(data, "log_return"), 1)))

\* --------------------------------------------------- objects and the files
\* An optional value: Python's None, or an object.
None == [some |-> FALSE]
Some(obj) == [some |-> TRUE, v |-> obj]

\* The paths of the working directory: the output directory, the two images,
\* and two paths the module never names.
docs == "docs"
VOLUME_PNG == "docs/nvda_volume.png"
SKEW_PNG == "docs/nvda_skew.png"
OtherPaths == {"docs/index.md", "README.md"}
Paths == {docs, VOLUME_PNG, SKEW_PNG} \cup OtherPaths

Absent == [kind |-> "absent", content |-> <<>>]
Dir == [kind |-> "dir", content |-> <<>>]
File(content) == [kind |-> "file", content |-> content]

\* The file systems a run can start in: docs absent, a regular file, or a
\* directory that holds index.md and, possibly, earlier (here empty) files
\* at the image paths.
StartFiles ==
    LET base == [p \in Paths |-> IF p = "README.md" THEN File(<<"text">>) ELSE Absent]
    IN  {base, [base EXCEPT ![docs] = File(<<"text">>)]}
        \cup {[base EXCEPT ![docs] = Dir, !["docs/index.md"] = File(<<"text">>),
                           ![VOLUME_PNG] = v, ![SKEW_PNG] = s] :
                 v \in {Absent, File(<<>>)}, s \in {Absent, File(<<>>)}}

\* ------------------------------------------------------------- save_plots
\* The PNG that savefig writes for a figure with one line plot.
Image(title, points) == <<"PNG", title, points>>

\* data["Volume"].plot(title=...)
VolumeChart(data) ==
    Image("NVDA Daily Volume - Last 6 Months",
          [t \in 1..Len(data) |-> <<t, data[t].Volume>>])

\* Mutant of SkewChart: the column is plotted without dropna().
SkewChart_KeepNaN(data) ==
    Image("NVDA 30-Day Rolling Skew - Last 6 Months",
          [t \in 1..Len(data) |-> <<t, data[t].rolling_skew>>])

\* data["rolling_skew"].dropna().plot(title=...)
SkewChart(data) ==
    Image("NVDA 30-Day Rolling Skew - Last 6 Months",
          DropNa(Column(data, "rolling_skew"), 1))

\* What the environment can make fail in a call of save_plots on this file
\* system and table: creating the directory (when it is absent), opening an
\* image file for writing, and plotting the columns of a table with no rows,
\* which the plotting library rejects when the columns are not numeric.
Faults(files, data) ==
    {"none", "volume", "skew"}
        \cup (IF files[docs].kind = "absent" THEN {"mkdir"} ELSE {})
        \cup (IF Len(data) = 0 THEN {"plot"} ELSE {})

\* Mutant of Mkdir: mkdir() without exist_ok raises when docs exists.
Mkdir_NoExistOk(files, fault) ==
    IF files[docs].kind # "absent" \/ fault = "mkdir"
    THEN [raised |-> TRUE, files |-> files]
    ELSE [raised |-> FALSE, files |-> [files EXCEPT ![docs] = Dir]]

\* Path("docs").mkdir(exist_ok=True): raises when docs is not a directory or
\* cannot be created.
Mkdir(files, fault) ==
    IF files[docs].kind = "dir" THEN [raised |-> FALSE, files |-> files]
    ELSE IF files[docs].kind = "file" \/ fault = "mkdir"
         THEN [raised |-> TRUE, files |-> files]
         ELSE [raised |-> FALSE, files |-> [files EXCEPT ![docs] = Dir]]

\* plt.savefig(path): the file at path is replaced by the image.
Savefig(files, path, image, failed) ==
    IF failed THEN [raised |-> TRUE, files |-> files]
    ELSE [raised |-> FALSE, files |-> [files EXCEPT ![path] = File(image)]]

\* Mutant of save_plots: plotting a rolling skew series with no defined value
\* raises.
save_plots_EmptySkewRaises(files, data, fault) ==
    LET made == Mkdir(files, fault)
        vol == Savefig(made.files, VOLUME_PNG, VolumeChart(data), fault = "volume")
    IN  IF made.raised THEN made
        ELSE IF fault = "plot" THEN [raised |-> TRUE, files |-> made.files]
        ELSE IF vol.raised THEN vol
        ELSE IF DropNa(Column(data, "rolling_skew"), 1) = <<>>
             THEN [raised |-> TRUE, files |-> vol.files]
        ELSE Savefig(vol.files, SKEW_PNG, SkewChart(data), fault = "skew")

\* save_plots(data), with the fault the environment injects.
save_plots(files, data, fault) ==
    LET made == Mkdir(files, fault)
        vol == Savefig(made.files, VOLUME_PNG, VolumeChart(data), fault = "volume")
    IN  IF made.raised THEN made
        ELSE IF fault = "plot" THEN [raised |-> TRUE, files |-> made.files]
        ELSE IF vol.raised THEN vol
        ELSE Savefig(vol.files, SKEW_PNG, SkewChart(data), fault = "skew")

\* --------------------------------------------------- compute_data, _skew
\* compute_data(): one download; the provider's failure is raised, its rows
\* (none included) get the two columns.
compute_data(rows, up) ==
    [raised |-> ~up, fetched |-> 1,
     ret |-> IF up THEN Some(Tables[rows]) ELSE None]

\* Mutant of compute_skew: the table is downloaded whatever data is.
compute_skew_AlwaysFetch(data, rows, up) ==
    LET got == compute_data(rows, up)
    IN  [raised |-> got.raised, fetched |-> got.fetched, data |-> data,
         ret |-> IF got.raised THEN None ELSE Some(ScalarSkew(got.ret.v))]

\* compute_skew(data): the table is downloaded when data is None.
compute_skew(data, rows, up) ==
    LET got == IF data = None THEN compute_data(rows, up)
               ELSE [raised |-> FALSE, fetched |-> 0, ret |-> data]
    IN  [raised |-> got.raised, fetched |-> got.fetched, data |-> data,
         ret |-> IF got.raised THEN None ELSE Some(ScalarSkew(got.ret.v))]

\* ------------------------------------------------------------- the script
\* Mutant of NextLine: the skewness is computed and printed before the plots
\* are saved.
NextLine_PrintBeforePlots(line) ==
    CASE line = "line69" -> "line71"
      [] line = "line71" -> "line72"
      [] line = "line72" -> "line70"
      [] line = "line70" -> "exit0"

\* The statement after each statement of the __main__ block.
NextLine(line) ==
    CASE line = "line69" -> "line70"
      [] line = "line70" -> "line71"
      [] line = "line71" -> "line72"
      [] line = "line72" -> "exit0"

\* Mutant of Propagate: the statement that raised is run again.
Propagate_Retry(line) == line

\* No statement is inside a try: an exception ends the process.
Propagate(line) == "exit1"

\* print(f"...: {skew}")
PrintLine(out, value) ==
    Append(out, [text |-> "NVDA daily log return skewness over the last six months: ",
                 value |-> value])

VARIABLES
    name,       \* __name__: "__main__" when run, "skew_nvda" when imported
    market,     \* the price series the provider holds
    pc,         \* the statement of the __main__ block to run next, or "client"
    df,         \* the table held by the script, or by the importing client
    skew,       \* the value compute_skew returned last
    files,      \* the file system
    stdout,     \* the lines printed
    fetches,    \* the number of downloads asked of the provider
    ncalls,     \* the number of calls of the module's functions
    last,       \* the last call: function, whether data was None, the fault
                \* injected, whether it raised
    before      \* the file system when that call began

vars == <<name, market, pc, df, skew, files, stdout, fetches, ncalls, last, before>>

Call(fn, dataNone, fault, raised) ==
    [fn |-> fn, dataNone |-> dataNone, fault |-> fault, raised |-> raised]

Init ==
    /\ name \in {"__main__", "skew_nvda"}
    /\ market \in Markets
    /\ pc = IF name = "__main__" THEN "line69" ELSE "client"
    /\ df = None
    /\ skew = None
    /\ files \in StartFiles
    /\ stdout = <<>>
    /\ fetches = 0
    /\ ncalls = 0
    /\ last = Call("none", FALSE, "none", FALSE)
    /\ before = files

\* line 69: df = compute_data()
Line69 ==
    /\ pc = "line69"
    /\ \E up \in BOOLEAN :
         LET r == compute_data(market, up)
         IN  /\ df' = r.ret
             /\ fetches' = fetches + r.fetched
             /\ pc' = IF r.raised THEN Propagate(pc) ELSE NextLine(pc)
             /\ last' = Call("compute_data", FALSE, IF up THEN "none" ELSE "network", r.raised)
    /\ ncalls' = ncalls + 1
    /\ before' = files
    /\ UNCHANGED <<name, market, skew, files, stdout>>

\* line 70: save_plots(df)
Line70 ==
    /\ pc = "line70"
    /\ \E fault \in Faults(files, df.v) :
         LET r == save_plots(files, df.v, fault)
         IN  /\ files' = r.files
             /\ pc' = IF r.raised THEN Propagate(pc) ELSE NextLine(pc)
             /\ last' = Call("save_plots", FALSE, fault, r.raised)
    /\ ncalls' = ncalls + 1
    /\ before' = files
    /\ UNCHANGED <<name, market, df, skew, stdout, fetches>>

\* line 71: skew = compute_skew(df)
Line71 ==
    /\ pc = "line71"
    /\ \E up \in BOOLEAN :
         LET r == compute_skew(df, market, up)
         IN  /\ skew' = r.ret
             /\ df' = r.data
             /\ fetches' = fetches + r.fetched
             /\ pc' = IF r.raised THEN Propagate(pc) ELSE NextLine(pc)
             /\ last' = Call("compute_skew", df = None, "none", r.raised)
    /\ ncalls' = ncalls + 1
    /\ before' = files
    /\ UNCHANGED <<name, market, files, stdout>>

\* line 72: print(...)
Line72 ==
    /\ pc = "line72"
    /\ stdout' = PrintLine(stdout, skew.v)
    /\ pc' = NextLine(pc)
    /\ UNCHANGED <<name, market, df, skew, files, fetches, ncalls, last, before>>

\* An importing client calls compute_data() and keeps the table.
ClientComputeData ==
    /\ pc = "client" /\ ncalls < MaxCalls
    /\ \E up \in BOOLEAN :
         LET r == compute_data(market, up)
         IN  /\ df' = IF r.raised THEN df ELSE r.ret
             /\ fetches' = fetches + r.fetched
             /\ last' = Call("compute_data", FALSE, IF up THEN "none" ELSE "network", r.raised)
    /\ ncalls' = ncalls + 1
    /\ before' = files
    /\ UNCHANGED <<name, market, pc, skew, files, stdout>>

\* An importing client calls save_plots on the table it holds.
ClientSavePlots ==
    /\ pc = "client" /\ ncalls < MaxCalls /\ df # None
    /\ \E fault \in Faults(files, df.v) :
         LET r == save_plots(files, df.v, fault)
         IN  /\ files' = r.files
             /\ last' = Call("save_plots", FALSE, fault, r.raised)
    /\ ncalls' = ncalls + 1
    /\ before' = files
    /\ UNCHANGED <<name, market, pc, df, skew, stdout, fetches>>

\* An importing client calls compute_skew, with its table or with None.
ClientComputeSkew ==
    /\ pc = "client" /\ ncalls < MaxCalls
    /\ \E data \in {None, df}, up \in BOOLEAN :
         LET r == compute_skew(data, market, up)
         IN  /\ skew' = IF r.raised THEN skew ELSE r.ret
             /\ df' = IF data = None THEN df ELSE r.data
             /\ fetches' = fetches + r.fetched
             /\ last' = Call("compute_skew", data = None,
                               IF data = None /\ ~up THEN "network" ELSE "none", r.raised)
    /\ ncalls' = ncalls + 1
    /\ before' = files
    /\ UNCHANGED <<name, market, pc, files, stdout>>

Next ==
    \/ Line69
    \/ Line70
    \/ Line71
    \/ Line72
    \/ ClientComputeData
    \/ ClientSavePlots
    \/ ClientComputeSkew

Spec == Init /\ [][Next]_vars
\* ------------------------------------------------------------------ claims
HasTable == df # None
N == Len(df.v)
Max0(k) == IF k > 0 THEN k ELSE 0
LogReturns == Column(df.v, "log_return")
RollingSkews == Column(df.v, "rolling_skew")

\* C1: for a price series of N >= 1 bars, log_return is undefined at the
\* first bar only, equals ln(close_t) - ln(close_{t-1}) at every later bar,
\* and the series compute_skew aggregates (log_return after dropna) has
\* exactly N - 1 elements.
C1_LogReturnSeries ==
    /\ (HasTable /\ N >= 1) =>
          /\ IsNaN(LogReturns[1])
          /\ \A t \in 2..N :
                LogReturns[t] = Val(Log(df.v[t].Close) - Log(df.v[t - 1].Close))
          /\ Len(DropNa(LogReturns, 1)) = N - 1
    /\ (skew # None /\ skew.v.ok) => skew.v.v[1] = Len(market) - 1

\* C1 witness: compute_skew has aggregated the log returns of a table of at
\* least four bars into a defined skewness.
C1_Witness ==
    /\ HasTable /\ N >= 4
    /\ last.fn = "compute_skew" /\ ~last.raised /\ skew # None /\ skew.v.ok

\* C2, as stated: the rolling_skew column is undefined at its first 29
\* positions and defined at every later position.
C2_Original ==
    HasTable => \A t \in 1..N : IsNaN(RollingSkews[t]) <=> t <= WINDOW - 1

\* C2, amended: the rolling_skew column is undefined at its first 30
\* positions (the first bar has no log return, so the first window of 30 log
\* returns ends at bar 31) and defined at every later position.
C2_Amended ==
    HasTable => \A t \in 1..N : IsNaN(RollingSkews[t]) <=> t <= WINDOW

\* C2 witness: a table of more than 30 bars, undefined at bar 30 and defined
\* at bar 31.
C2_Witness ==
    /\ HasTable /\ N > WINDOW
    /\ IsNaN(RollingSkews[WINDOW]) /\ ~IsNaN(RollingSkews[WINDOW + 1])

Script == name = "__main__"
Rendered ==
    /\ files[VOLUME_PNG] = File(VolumeChart(df.v))
    /\ files[SKEW_PNG] = File(SkewChart(df.v))
FetchedRows == [t \in 1..N |-> [Close |-> df.v[t].Close, Volume |-> df.v[t].Volume]]

\* C3: a run of the entry point fetches, then renders, then prints: nothing
\* is rendered or printed before the one fetch, the skewness line is printed
\* exactly once, only after both images have been written, and the value
\* printed is the skewness of the log returns of the fetched series that
\* was rendered.
C3_PipelineOrder ==
    Script =>
        /\ pc = "line69" => fetches = 0 /\ files = before /\ stdout = <<>>
        /\ pc = "line70" => fetches = 1 /\ files = before /\ stdout = <<>>
        /\ pc \in {"line71", "line72"} => fetches = 1 /\ Rendered /\ stdout = <<>>
        /\ pc = "exit1" => stdout = <<>>
        /\ pc = "exit0" <=> Len(stdout) = 1
        /\ pc = "exit0" =>
              /\ fetches = 1 /\ FetchedRows = market /\ Rendered
              /\ stdout[1].value = Skew(Values(DropNa(LogReturns, 1)))

\* C3 witness: a run has printed the skewness of a series of more than 30
\* bars.
C3_Witness == Script /\ pc = "exit0" /\ N > WINDOW /\ stdout # <<>>

\* C4: in a run of the entry point, a call that raises (the fetch fails, or
\* a directory or image file cannot be written) ends the run in the failed
\* state: nothing happens afterwards, so the step is not retried, no later
\* step is executed, and the skewness line is not printed.
C4_FailurePropagates ==
    /\ [][Script =>
            /\ (ncalls' # ncalls /\ last'.raised) => pc' = "exit1"
            /\ pc = "exit1" => UNCHANGED vars]_vars
    /\ [](Script /\ pc = "exit1" =>
            /\ last.raised /\ stdout = <<>> /\ skew = None
            /\ last.fn = "compute_data" => df = None /\ files = before)

\* C4 witness: the run failed at the write of the second image, after the
\* first was written.
C4_Witness ==
    /\ Script /\ pc = "exit1" /\ last.fn = "save_plots" /\ last.fault = "skew"
    /\ files[VOLUME_PNG] = File(VolumeChart(df.v))

\* C5: when the provider returns no rows, compute_data raises instead of
\* returning an empty table.
C5_EmptyResultRaises ==
    /\ (last.fn = "compute_data" /\ Len(market) = 0) => last.raised
    /\ HasTable => N > 0

NonEmptyFile(path) == files[path].kind = "file" /\ Len(files[path].content) > 0

C7_FilesAfterSavePlots ==
    (last.fn = "save_plots" /\ ~last.raised) =>
        /\ files[docs] = Dir
        /\ files[VOLUME_PNG] = File(VolumeChart(df.v))
        /\ files[SKEW_PNG] = File(SkewChart(df.v))
        /\ \A p \in Paths \ {docs, VOLUME_PNG, SKEW_PNG} : files[p] = before[p]
        /\ before[docs] \in {Absent, Dir}
        /\ save_plots(files, df.v, "none") = [raised |-> FALSE, files |-> files]

\* C7 witness: save_plots succeeded a second time on a file system that
\* already held its images.
C7_Witness ==
    /\ last.fn = "save_plots" /\ ~last.raised
    /\ before = files /\ files["docs/index.md"] # Absent

\* C8: every defined rolling skew value is the skewness of exactly the 30
\* log returns at the positions t-29 .. t, all of them defined; the window
\* of the next position is that window moved by one observation.
C8_RollingWindow ==
    HasTable =>
        \A t \in 1..N : ~IsNaN(RollingSkews[t]) =>
            /\ t - WINDOW + 1 >= 1
            /\ \A k \in (t - WINDOW + 1)..t : ~IsNaN(LogReturns[k])
            /\ RollingSkews[t] =
                  Skew([k \in 1..WINDOW |-> LogReturns[t - WINDOW + k].v])

\* C8 witness: two consecutive windows of a table give different values.
C8_Witness ==
    /\ HasTable /\ N >= WINDOW + 2
    /\ ~IsNaN(RollingSkews[N - 1]) /\ ~IsNaN(RollingSkews[N])
    /\ RollingSkews[N - 1] # RollingSkews[N]

\* C9: compute_skew downloads exactly once when called with data = None and
\* not at all when called with a table, which it leaves unchanged;
\* save_plots downloads nothing; a run of the entry point downloads exactly
\* once.
C9_Fetches ==
    /\ [][ncalls' # ncalls =>
            /\ last'.fn = "compute_skew" =>
                  /\ fetches' = fetches + (IF last'.dataNone THEN 1 ELSE 0)
                  /\ df' = df
            /\ last'.fn = "save_plots" => fetches' = fetches]_vars
    /\ [](Script => fetches = (IF pc = "line69" THEN 0 ELSE 1))

\* C9 witness: a client that holds a table called compute_skew with None,
\* which downloaded a second time.
C9_Witness ==
    /\ last.fn = "compute_skew" /\ last.dataNone /\ ~last.raised
    /\ HasTable /\ fetches = 2

\* C10: for a table of N bars the rolling_skew column has max(0, N - 30)
\* defined entries, none when N <= 30, every undefined entry precedes every
\* defined one, and the rolling-skew chart is drawn with those points.
C10_SkewChartPoints ==
    /\ HasTable =>
          /\ Len(DropNa(RollingSkews, 1)) = Max0(N - WINDOW)
          /\ N <= WINDOW => DropNa(RollingSkews, 1) = <<>>
          /\ \A t \in 2..N : IsNaN(RollingSkews[t]) => IsNaN(RollingSkews[t - 1])
    /\ (last.fn = "save_plots" /\ ~last.raised) =>
          /\ Len(files[SKEW_PNG].content[3]) = Max0(N - WINDOW)
          /\ files[SKEW_PNG].content[3] = DropNa(RollingSkews, 1)

\* C10 witness: a chart with two points was drawn from a table of 32 bars.
C10_Witness ==
    /\ last.fn = "save_plots" /\ ~last.raised /\ N = WINDOW + 2
    /\ Len(files[SKEW_PNG].content[3]) = 2
====
